---- MODULE Spec2Model ----
(***************************************************************************)
(* Messaging Integration Engine of ivgkwhatsappbackend: the outbound       *)
(* dispatcher (sendTextMessage, sendTemplateMessage, sendMediaMessage),    *)
(* the messaging-window policy and the webhook ingestion path              *)
(* (WhatsAppController.handleWebhook -> WhatsAppService.handleWebhook ->   *)
(* processIncomingMessages / processStatusUpdates) over the contacts,      *)
(* conversations and messages tables.                                      *)
(*                                                                         *)
(* Every request runs in a worker p; a worker is suspended only at an      *)
(* await of the source (a state-store call or the provider call), so each  *)
(* await is one atomic step and the steps of different workers interleave. *)
(* Time is counted in hours.                                               *)
(*                                                                         *)
(* The handlers and helpers that keep nothing between calls (the webhook   *)
(* verification handshake, the template component helpers) are applied to  *)
(* drawn arguments; call records the last application.                     *)
(***************************************************************************)
EXTENDS Integers, Sequences, FiniteSets, TLC

\* ---------------------------------------------------------------- bounds
NumProcs == 2        \* concurrent requests
MaxOps == 2          \* requests started in one behaviour
MaxMessages == 3     \* rows of the messages table
MaxClock == 24       \* last hour the clock reaches
TickHours == 24      \* hours that pass in one clock step
MaxBlocks == 2       \* value blocks in one webhook batch
MaxEvents == 2       \* message and status events in one webhook batch

Procs == 1..NumProcs

\* ------------------------------------------------------- nullable values
NoRow == 0                 \* null row reference / findUnique returning null
NoTime == 0 - 1            \* null TIMESTAMP
NoWamid == "null"          \* null whatsapp_message_id
NoError == "null"          \* null error text

\* ------------------------------------------------------------ characters
Digits == {"0", "1", "2", "3", "4", "5", "6", "7", "8", "9"}

\* phoneNumber.replace(/[^\d+]/g, '')
StripPhone(s) == SelectSeq(s, LAMBDA c : c \in Digits \cup {"+"})

\* normalized.startsWith(c)
StartsWith(s, c) == Len(s) > 0 /\ s[1] = c

normalizePhoneNumber(phoneNumber) ==
    LET normalized == StripPhone(phoneNumber)
    IN  IF ~StartsWith(normalized, "+")
        THEN IF StartsWith(normalized, "0")
             THEN <<"+", "1">> \o SubSeq(normalized, 2, Len(normalized))
             ELSE <<"+">> \o normalized
        ELSE normalized

\* /^\+\d{10,}$/.test(normalizedPhone)
MinPhoneDigits == 10
ValidPhone(s) ==
    /\ Len(s) >= 1 + MinPhoneDigits
    /\ s[1] = "+"
    /\ \A i \in 2..Len(s) : s[i] \in Digits

\* ---------------------------------------------------------------- inputs
PhoneIntl  == <<"+", "1", "5", "5", "5", "0", "0", "0", "0", "0", "0", "1">>
PhoneLocal == <<"0", "5", "5", "5", "0", "0", "0", "0", "0", "0", "1">>
PhoneShort == <<"1", "2", "-", "3", "4">>
PhoneWire  == <<"1", "5", "5", "5", "0", "0", "0", "0", "0", "0", "1">>
NoPhone    == <<>>

\* phone numbers given to the send endpoints
SendPhones == {PhoneIntl, PhoneLocal, PhoneShort}
\* message.from of an inbound event (NoPhone: the field is missing)
FromPhones == {PhoneWire, NoPhone}

\* the companies table: two connected tenants with their phone-number ids
Tenants == {"A", "B"}
\* the tenant the send endpoints are called for
SendTenants == {"A"}
whatsappPhoneId(c) == IF c = "A" THEN "pnA" ELSE "pnB"
\* metadata.phone_number_id of a value block ("pnX" belongs to no tenant)
PhoneIds == {"pnA", "pnB", "pnX"}
\* the lookup falling back to the first tenant
CompanyByPhoneId_Fallback(pid) ==
    IF \E c \in Tenants : whatsappPhoneId(c) = pid
    THEN CHOOSE c \in Tenants : whatsappPhoneId(c) = pid
    ELSE "A"
\* prisma.company.findFirst({ where: { whatsappPhoneId } })
CompanyByPhoneId(pid) ==
    IF \E c \in Tenants : whatsappPhoneId(c) = pid
    THEN CHOOSE c \in Tenants : whatsappPhoneId(c) = pid
    ELSE "none"

\* remote ids the provider issues for accepted sends, in this order
OutIds == <<"wamid.o1", "wamid.o2", "wamid.o3">>
\* remote ids of inbound messages
InIds == {"wamid.i1", "wamid.i2"}

\* message.timestamp of inbound events: the provider's clock, not the server's
EventTimes == {0, TickHours \div 2}

VARIABLES
    contacts,       \* contacts table: row id = index
    conversations,  \* conversations table
    messages,       \* messages table
    now,            \* wall clock, hours
    issued,         \* number of remote ids the provider has issued
    started,        \* requests started so far
    parallel,       \* requests the server works on at the same time
    pc,             \* pc[p]: the await worker p is suspended at
    req,            \* req[p]: the request worker p serves
    loc,            \* loc[p]: local variables of the handler and its outcome
    templates,      \* templates table: row id = index
    submitting,     \* the template request that is suspended at an await
    campaigns,      \* campaigns table: row id = index
    webhookVerifyToken,   \* whatsapp.webhookVerifyToken of the deployment
    call            \* last application of a stateless handler or helper

\* state of the messaging engine
mvars == <<contacts, conversations, messages, now, issued, started, parallel, pc,
           req, loc>>
\* state the messaging engine never touches
svars == <<templates, submitting, campaigns, webhookVerifyToken, call>>
vars == <<mvars, svars>>


\* ------------------------------------------------------------ state store
\* prisma.contact.findUnique({ where: { companyId_phone } })
FindContact(companyId, phone) ==
    IF \E i \in 1..Len(contacts) :
          contacts[i].companyId = companyId /\ contacts[i].phone = phone
    THEN CHOOSE i \in 1..Len(contacts) :
          contacts[i].companyId = companyId /\ contacts[i].phone = phone
    ELSE NoRow

\* prisma.conversation.findUnique({ where: { companyId_contactId } })
FindConversation(companyId, contactId) ==
    IF \E i \in 1..Len(conversations) :
          conversations[i].companyId = companyId /\ conversations[i].contactId = contactId
    THEN CHOOSE i \in 1..Len(conversations) :
          conversations[i].companyId = companyId /\ conversations[i].contactId = contactId
    ELSE NoRow

\* hoursSinceLastMessage < 24
WindowHours == 24
\* the comparison with <= in place of <
WithinWindow_Inclusive(lastMessageAt, at) == at - lastMessageAt <= WindowHours
WithinWindow(lastMessageAt, at) == at - lastMessageAt < WindowHours

hasActiveConversationWindow(companyId, contactId) ==
    LET conversation == FindConversation(companyId, contactId)
    IN  IF conversation = NoRow THEN FALSE
        ELSE IF conversations[conversation].lastMessageAt = NoTime THEN FALSE
        ELSE WithinWindow(conversations[conversation].lastMessageAt, now)

\* status: { in: ['SENT', 'DELIVERED', 'READ'] }
HistoryStatuses == {"SENT", "DELIVERED", "READ"}

hasOutboundMessageHistory(companyId, contactId) ==
    \E i \in 1..Len(messages) :
        /\ messages[i].companyId = companyId
        /\ messages[i].contactId = contactId
        /\ messages[i].direction = "OUTBOUND"
        /\ messages[i].status \in HistoryStatuses

\* a row of the messages table as prisma.message.create writes it
MessageRow(companyId, contactId, conversationId, wamid, type, direction, status, error, sentAt, deliveredAt) ==
    [companyId |-> companyId, contactId |-> contactId,
     conversationId |-> conversationId, whatsappMessageId |-> wamid,
     type |-> type, direction |-> direction, status |-> status,
     error |-> error, sentAt |-> sentAt, deliveredAt |-> deliveredAt,
     readAt |-> NoTime]

\* the contacts table without its unique index
ContactKeyTaken_NoIndex(companyId, phone) == FALSE
\* contacts_company_id_phone_key: the insert is refused when the key is taken
ContactKeyTaken(companyId, phone) == FindContact(companyId, phone) # NoRow

\* conversations_company_id_contact_id_key
ConversationKeyTaken(companyId, contactId) ==
    FindConversation(companyId, contactId) # NoRow

\* messages_whatsapp_message_id_key: the insert is refused when the id is taken
WamidTaken(wamid) ==
    wamid # NoWamid /\ \E i \in 1..Len(messages) : messages[i].whatsappMessageId = wamid

\* --------------------------------------------------------------- workers
NoSignature == <<>>        \* the x-hub-signature-256 header is absent
NoResp == [ok |-> FALSE, id |-> NoWamid, error |-> NoError, code |-> 0,
           subcode |-> 0, http |-> 0]
NoEvent == [from |-> NoPhone, id |-> NoWamid, type |-> "none", timestamp |-> NoTime]
NoStatus == [id |-> NoWamid, status |-> "none", error |-> NoError]
NoReq == [kind |-> "none", companyId |-> "none", phoneNumber |-> NoPhone,
          signature |-> NoSignature]
\* locals of a handler; result, calls (provider calls made), rows (Message
\* rows inserted), dropped (value blocks skipped), stTimes (times in a row
\* the status event st was processed) and message (text of the exception a
\* failed send throws) record what the request did
LocInit ==
    [companyId |-> "none", phone |-> NoPhone, contact |-> NoRow,
     conversation |-> NoRow, hasActiveWindow |-> FALSE, resp |-> NoResp,
     blocksLeft |-> 0, eventsLeft |-> 0, msgsLeft |-> 0, stLeft |-> 0,
     ev |-> NoEvent, st |-> NoStatus, stTimes |-> 0, pid |-> "none",
     dropped |-> 0,
     result |-> "none", calls |-> 0, rows |-> 0, row |-> NoRow,
     message |-> "none"]

\* no template request in flight, no stateless call made yet; campaignCount
\* is the local variable of TemplatesService.delete, found the status and
\* remote id of the row as submitToMeta read it
NoSubmit == [fn |-> "none", id |-> NoRow, companyId |-> "none", campaignCount |-> 0,
             found |-> [status |-> "none", whatsappTemplateId |-> "null"]]
NoCall == [fn |-> "none", done |-> TRUE]

Init ==
    /\ contacts = <<>>
    /\ conversations = <<>>
    /\ messages = <<>>
    /\ now = 0
    /\ issued = 0
    /\ started = 0
    /\ parallel = 1
    /\ pc = [p \in Procs |-> "idle"]
    /\ req = [p \in Procs |-> NoReq]
    /\ loc = [p \in Procs |-> LocInit]
    /\ templates = <<>>
    /\ submitting = NoSubmit
    /\ campaigns = <<>>
    /\ webhookVerifyToken = "verify-token"
    /\ call = NoCall

\* worker p goes on to the await at label with locals l
Goto(p, label, l) ==
    /\ pc' = [pc EXCEPT ![p] = label]
    /\ loc' = [loc EXCEPT ![p] = l]

\* the handler returns or throws: its outcome is handed to the HTTP layer
Finish(p, result, l) == Goto(p, "done", [l EXCEPT !.result = result])

\* a request is taken by the first free worker
CanStart(p) ==
    /\ pc[p] = "idle"
    /\ \A q \in Procs : q < p => pc[q] # "idle"
    /\ Cardinality({q \in Procs : pc[q] # "idle"}) < parallel
    /\ started < MaxOps

\* text a failed send stores in Message.error
DefaultSendError == "Failed to send message"
DefaultTemplateSendError == "Failed to send template message"

\* a failed provider call: error.response.status, and code, error_subcode
\* and message of error.response.data.error (0, NoError: not there)
ProviderError(http, code, subcode, message) ==
    [ok |-> FALSE, id |-> NoWamid, error |-> message, code |-> code,
     subcode |-> subcode, http |-> http]
ProviderErrors == {ProviderError(400, 131047, 0, "(#131047) not on network")}
\* the failures the catch blocks tell apart, one they do not, and a call
\* that fails without a response
CodedErrors ==
    {ProviderError(400, 131047, 0, "(#131047) not on network"),
     ProviderError(400, 131026, 0, "(#131026) undeliverable"),
     ProviderError(400, 131051, 0, "(#131051) unsupported message type"),
     ProviderError(400, 131031, 0, "(#131031) account locked"),
     ProviderError(400, 131048, 0, "(#131048) spam rate limit hit"),
     ProviderError(429, 4, 0, "(#4) too many calls"),
     ProviderError(400, 131000, 131031, "(#131000) something went wrong"),
     ProviderError(400, 131000, 0, "(#131000) something went wrong"),
     ProviderError(400, 132001, 0, "(#132001) template name does not exist"),
     ProviderError(400, 132000, 0, "(#132000) parameter count mismatch"),
     ProviderError(401, 190, 0, "(#190) access token expired"),
     ProviderError(0, 0, 0, NoError)}

\* answers of POST /{phoneNumberId}/messages: accepted with a fresh message
\* id, HTTP success without a message id, or one of the given failures
ProviderResponses(errors) ==
    {[NoResp EXCEPT !.ok = TRUE, !.id = OutIds[issued + 1], !.http = 200],
     [NoResp EXCEPT !.ok = TRUE, !.http = 200]}
    \cup errors

\* what the catch block of sendTextMessage throws
TextSendException(resp) ==
    LET errorMessage == IF resp.error # NoError THEN resp.error ELSE DefaultSendError
    IN  CASE resp.code = 131047 -> "Phone number is not registered on WhatsApp."
          [] resp.code = 131026 -> "Message failed to send."
          [] resp.code = 131051 -> "Cannot send free-form message."
          [] resp.code = 131031 -> "Rate limit exceeded."
          [] resp.code = 131048 -> "Invalid phone number format."
          [] resp.http = 429 -> "Rate limit exceeded."
          [] resp.code = 131000 /\ resp.subcode = 131031 ->
                "Cannot send message. You must send a template message first"
          [] OTHER -> errorMessage

\* what the catch block of sendTemplateMessage throws
TemplateSendException(resp) ==
    LET errorMessage == IF resp.error # NoError THEN resp.error
                        ELSE DefaultTemplateSendError
    IN  CASE resp.code = 132001 -> "Template does not exist in language"
          [] resp.code = 132000 -> "Template not found or not approved."
          [] resp.code = 131047 -> "Phone number is not registered on WhatsApp."
          [] resp.code = 131026 -> "Message failed to send."
          [] OTHER -> errorMessage

SendKinds == {"text", "template"}

\* sendTextMessage / sendTemplateMessage up to the first contact lookup
StartSend(p, kind, companyId, phoneNumber) ==
    /\ CanStart(p)
    /\ started' = started + 1
    /\ parallel' = parallel
    /\ req' = [req EXCEPT ![p] = [NoReq EXCEPT !.kind = kind,
                                              !.companyId = companyId,
                                              !.phoneNumber = phoneNumber]]
    /\ LET normalizedPhone == normalizePhoneNumber(phoneNumber)
       IN  IF ~ValidPhone(normalizedPhone)
           THEN Finish(p, "InvalidPhone", LocInit)
           ELSE Goto(p, "findContact", [LocInit EXCEPT !.companyId = companyId,
                                                       !.phone = normalizedPhone])
    /\ UNCHANGED <<svars, contacts, conversations, messages, now, issued>>

\* let contact = await prisma.contact.findUnique(...)
SendFindContact(p) ==
    /\ pc[p] = "findContact"
    /\ LET contact == FindContact(loc[p].companyId, loc[p].phone)
       IN  Goto(p, IF contact = NoRow THEN "createContact" ELSE "findConversation",
                [loc[p] EXCEPT !.contact = contact])
    /\ UNCHANGED <<svars, contacts, conversations, messages, now, issued, started, parallel, req>>

\* contact = await prisma.contact.create(...): contacts_company_id_phone_key
\* refuses a second row, and nothing in the handler catches the rejection
SendCreateContact(p) ==
    /\ pc[p] = "createContact"
    /\ IF ContactKeyTaken(loc[p].companyId, loc[p].phone)
       THEN /\ Finish(p, "UniqueConflict", loc[p])
            /\ contacts' = contacts
       ELSE /\ contacts' = Append(contacts,
                   [companyId |-> loc[p].companyId, phone |-> loc[p].phone,
                    lastMessageAt |-> NoTime])
            /\ Goto(p, "findConversation", [loc[p] EXCEPT !.contact = Len(contacts) + 1])
    /\ UNCHANGED <<svars, conversations, messages, now, issued, started, parallel, req>>

\* every send kind put through the window checks
AfterConversation_Gated(kind) == "window"
\* the await that follows the conversation lookup
AfterConversation(kind) == IF kind = "text" THEN "window" ELSE "post"

\* let conversation = await prisma.conversation.findUnique(...)
SendFindConversation(p) ==
    /\ pc[p] = "findConversation"
    /\ LET conversation == FindConversation(loc[p].companyId, loc[p].contact)
       IN  Goto(p, IF conversation # NoRow THEN AfterConversation(req[p].kind)
                   ELSE "createConversation",
                [loc[p] EXCEPT !.conversation = conversation])
    /\ UNCHANGED <<svars, contacts, conversations, messages, now, issued, started, parallel, req>>

\* conversation = await prisma.conversation.create(...)
SendCreateConversation(p) ==
    /\ pc[p] = "createConversation"
    /\ IF ConversationKeyTaken(loc[p].companyId, loc[p].contact)
       THEN /\ Finish(p, "UniqueConflict", loc[p])
            /\ conversations' = conversations
       ELSE /\ conversations' = Append(conversations,
                   [companyId |-> loc[p].companyId, contactId |-> loc[p].contact,
                    status |-> "OPEN", lastMessageAt |-> NoTime])
            /\ Goto(p, AfterConversation(req[p].kind),
                    [loc[p] EXCEPT !.conversation = Len(conversations) + 1])
    /\ UNCHANGED <<svars, contacts, messages, now, issued, started, parallel, req>>

\* const hasActiveWindow = await this.hasActiveConversationWindow(...)
SendCheckWindow(p) ==
    /\ pc[p] = "window"
    /\ Goto(p, "history",
            [loc[p] EXCEPT !.hasActiveWindow =
                 hasActiveConversationWindow(loc[p].companyId, loc[p].contact)])
    /\ UNCHANGED <<svars, contacts, conversations, messages, now, issued, started, parallel, req>>

\* if (!hasActiveWindow && !hasMessageHistory) throw
WindowDenied(hasActiveWindow, hasMessageHistory) ==
    ~hasActiveWindow /\ ~hasMessageHistory

\* const hasMessageHistory = await this.hasOutboundMessageHistory(...), and
\* the rejection when neither check holds
SendCheckHistory(p) ==
    /\ pc[p] = "history"
    /\ IF WindowDenied(loc[p].hasActiveWindow,
                       hasOutboundMessageHistory(loc[p].companyId, loc[p].contact))
       THEN Finish(p, "WindowClosed", loc[p])
       ELSE Goto(p, "post", loc[p])
    /\ UNCHANGED <<svars, contacts, conversations, messages, now, issued, started, parallel, req>>

\* the handler without its check of the message id
HasMessageId_AnyOk(resp) == resp.ok
\* a message id the handler accepts: response.data.messages[0].id is truthy
HasMessageId(resp) == resp.ok /\ resp.id # NoWamid

\* const response = await apiClient.post(`/${phoneNumberId}/messages`, ...)
\* and the checks of the response that follow it
SendPost(p, in) ==
    /\ pc[p] = "post"
    /\ issued < Len(OutIds)
    /\ \E resp \in ProviderResponses(in.errors) :
        /\ issued' = IF resp.id # NoWamid THEN issued + 1 ELSE issued
        /\ Goto(p, IF HasMessageId(resp) THEN "touchConversation" ELSE "saveFailed",
                [loc[p] EXCEPT !.resp = resp, !.calls = @ + 1])
    /\ UNCHANGED <<svars, contacts, conversations, messages, now, started, parallel, req>>

\* await prisma.conversation.update({ data: { lastMessageAt: new Date() } })
SendTouchConversation(p) ==
    /\ pc[p] = "touchConversation"
    /\ conversations' = [conversations EXCEPT ![loc[p].conversation].lastMessageAt = now]
    /\ Goto(p, "saveSent", loc[p])
    /\ UNCHANGED <<svars, contacts, messages, now, issued, started, parallel, req>>

MessageTypeOf(kind) == IF kind = "text" THEN "TEXT" ELSE "TEMPLATE"

\* const savedMessage = await prisma.message.create({ ... status: 'SENT' });
\* a refused insert is caught by the handler's catch block
SendSaveSent(p) ==
    /\ pc[p] = "saveSent"
    /\ Len(messages) < MaxMessages
    /\ IF WamidTaken(loc[p].resp.id)
       THEN /\ Goto(p, "saveFailed", loc[p])
            /\ messages' = messages
       ELSE /\ messages' = Append(messages,
                   MessageRow(loc[p].companyId, loc[p].contact, loc[p].conversation,
                              loc[p].resp.id, MessageTypeOf(req[p].kind), "OUTBOUND",
                              "SENT", NoError, now, NoTime))
            /\ Finish(p, "SENT", [loc[p] EXCEPT !.rows = @ + 1,
                                                !.row = Len(messages) + 1])
    /\ UNCHANGED <<svars, contacts, conversations, now, issued, started, parallel, req>>

\* catch (error): await prisma.message.create({ ... status: 'FAILED' }), then
\* the BadRequestException is thrown
SendSaveFailed(p) ==
    /\ pc[p] = "saveFailed"
    /\ Len(messages) < MaxMessages
    /\ messages' = Append(messages,
           MessageRow(loc[p].companyId, loc[p].contact, loc[p].conversation,
                      NoWamid, MessageTypeOf(req[p].kind), "OUTBOUND", "FAILED",
                      IF loc[p].resp.error # NoError THEN loc[p].resp.error
                      ELSE IF req[p].kind = "text" THEN DefaultSendError
                      ELSE DefaultTemplateSendError,
                      now, NoTime))
    /\ Finish(p, "DispatchError",
              [loc[p] EXCEPT !.rows = @ + 1, !.row = Len(messages) + 1,
                             !.message = IF req[p].kind = "text"
                                         THEN TextSendException(loc[p].resp)
                                         ELSE TemplateSendException(loc[p].resp)])
    /\ UNCHANGED <<svars, contacts, conversations, now, issued, started, parallel, req>>

\* sendMediaMessage up to its provider call
StartMedia(p, companyId, phoneNumber) ==
    /\ CanStart(p)
    /\ started' = started + 1
    /\ parallel' = parallel
    /\ req' = [req EXCEPT ![p] = [NoReq EXCEPT !.kind = "media",
                                              !.companyId = companyId,
                                              !.phoneNumber = phoneNumber]]
    /\ Goto(p, "mediaPost", [LocInit EXCEPT !.companyId = companyId,
                                            !.phone = phoneNumber])
    /\ UNCHANGED <<svars, contacts, conversations, messages, now, issued>>

\* const response = await apiClient.post(...); return response.data, or the
\* catch block's BadRequestException: nothing is stored either way
MediaPost(p) ==
    /\ pc[p] = "mediaPost"
    /\ \E accepted \in BOOLEAN :
          Finish(p, IF accepted THEN "SENT" ELSE "DispatchError",
                 [loc[p] EXCEPT !.calls = @ + 1])
    /\ UNCHANGED <<svars, contacts, conversations, messages, now, issued, started, parallel, req>>

\* the response leaves the server: the worker is free for the next request
Return(p) ==
    /\ pc[p] = "done"
    /\ pc' = [pc EXCEPT ![p] = "idle"]
    /\ req' = [req EXCEPT ![p] = NoReq]
    /\ loc' = [loc EXCEPT ![p] = LocInit]
    /\ UNCHANGED <<svars, contacts, conversations, messages, now, issued, started, parallel>>

\* time passes
Tick ==
    /\ now + TickHours <= MaxClock
    /\ now' = now + TickHours
    /\ UNCHANGED <<svars, contacts, conversations, messages, issued, started, parallel, pc, req, loc>>

\* ---------------------------------------------------------------- webhook
\* whatsapp.webhookAppSecret as deployed
webhookAppSecret == "app-secret"
\* the request body the signature is computed over
Payload == "raw-body"
\* crypto.createHmac('sha256', key).update(JSON.stringify(payload)).digest('hex')
HmacSha256(key, payload) == <<"hmac-sha256", key, payload>>
\* `sha256=${hex}`
SignatureHeader(hex) == <<"sha256=">> \o hex

\* x-hub-signature-256 of a request: absent, signed by the provider, or
\* signed with a key that is not the app secret
Signatures ==
    {NoSignature,
     SignatureHeader(HmacSha256(webhookAppSecret, Payload)),
     SignatureHeader(HmacSha256("other-key", Payload))}

verifyWebhookSignature(payload, signature) ==
    IF webhookAppSecret = "" THEN FALSE
    ELSE signature = SignatureHeader(HmacSha256(webhookAppSecret, payload))

\* if (signature) { if (!isValid) throw }: the requests the controller
\* hands to the service
ControllerAccepts(payload, signature) ==
    signature = NoSignature \/ verifyWebhookSignature(payload, signature)

\* enum "MessageType"
MessageTypes ==
    {"TEXT", "IMAGE", "VIDEO", "DOCUMENT", "AUDIO", "LOCATION", "CONTACT",
     "STICKER", "TEMPLATE", "INTERACTIVE_BUTTON", "INTERACTIVE_LIST",
     "INTERACTIVE_PRODUCT", "INTERACTIVE_FLOW", "POLL", "REACTION", "ORDER"}

\* message.type of an inbound event; NoType: the field is missing
NoType == "undefined"
InTypes == {"text", "interactive", NoType}

\* messageType.toUpperCase()
toUpperCase(t) ==
    CASE t = "text" -> "TEXT"
      [] t = "image" -> "IMAGE"
      [] t = "interactive" -> "INTERACTIVE"
      [] t \in {"body", "BODY"} -> "BODY"
      [] t \in {"footer", "FOOTER"} -> "FOOTER"
      [] t = "" -> ""

\* inbound message events of a value block
InEvents ==
    [from : FromPhones, id : InIds, type : InTypes, timestamp : EventTimes]

\* status.status of a status event
StatusNames == {"sent", "delivered", "read", "failed", "deleted"}
DefaultStatusError == "Message delivery failed"
\* status.id of a status event; NoStatusId: the field is missing
NoStatusId == "undefined"
StatusIds == {OutIds[1], OutIds[2]}
\* status events with the given ids; error: status.errors?.[0]?.message
StatusEventsOf(ids) ==
    [id : ids, status : StatusNames \ {"failed"}, error : {NoError}]
    \cup [id : ids, status : {"failed"},
          error : {NoError, "(#131026) undeliverable"}]
\* status events of a value block
StatusEvents == StatusEventsOf(StatusIds)

\* enum "MessageStatus"
MessageStatuses == {"SCHEDULED", "SENDING", "SENT", "DELIVERED", "READ", "FAILED"}
\* names every object literal inherits from Object.prototype: statusMap[name]
\* is a function, which is truthy
InheritedKeys == {"constructor", "toString"}
\* statusMap[status] || 'SENT'
mapWhatsAppStatus(status) ==
    CASE status = "sent" -> "SENT"
      [] status = "delivered" -> "DELIVERED"
      [] status = "read" -> "READ"
      [] status = "failed" -> "FAILED"
      [] status \in InheritedKeys -> "Function"
      [] OTHER -> "SENT"

\* the row a status event leaves behind: the data of prisma.message.updateMany
ApplyStatus(row, st) ==
    [row EXCEPT
        !.status = mapWhatsAppStatus(st.status),
        !.deliveredAt = IF st.status = "delivered" THEN now ELSE @,
        !.readAt = IF st.status = "read" THEN now ELSE @,
        !.error = IF st.status = "failed"
                  THEN (IF st.error # NoError THEN st.error ELSE DefaultStatusError)
                  ELSE @]

\* where: { companyId, whatsappMessageId: messageId }; the query client
\* leaves a filter whose value is undefined out of the query
StatusMatches(row, companyId, st) ==
    /\ row.companyId = companyId
    /\ st.id # NoStatusId => row.whatsappMessageId = st.id

\* the status written twice over
UpdateMany_Toggling(ms, companyId, st) ==
    [i \in 1..Len(ms) |->
        IF StatusMatches(ms[i], companyId, st)
        THEN IF ms[i].status = mapWhatsAppStatus(st.status)
             THEN [ms[i] EXCEPT !.status = "PENDING"]
             ELSE ApplyStatus(ms[i], st)
        ELSE ms[i]]
\* the messages table after prisma.message.updateMany({ where, data })
UpdateMany(ms, companyId, st) ==
    [i \in 1..Len(ms) |->
        IF StatusMatches(ms[i], companyId, st) THEN ApplyStatus(ms[i], st)
        ELSE ms[i]]

\* the query client built with strictUndefinedChecks refuses an undefined
\* filter value instead of leaving it out
StrictUndefinedChecks == BOOLEAN

\* the query client refuses data whose status is not a value of the enum
StatusRefused(st) == mapWhatsAppStatus(st.status) \notin MessageStatuses

\* WhatsAppController.handleWebhook (POST webhook) and
\* WhatsAppService.handleWebhook up to the first value block
StartWebhook(p, signature, blocks) ==
    /\ CanStart(p)
    /\ started' = started + 1
    /\ parallel' = parallel
    /\ req' = [req EXCEPT ![p] = [NoReq EXCEPT !.kind = "webhook",
                                              !.signature = signature]]
    /\ IF ~ControllerAccepts(Payload, signature)
       THEN Finish(p, "InvalidSignature", [LocInit EXCEPT !.blocksLeft = blocks])
       ELSE Goto(p, "block", [LocInit EXCEPT !.blocksLeft = blocks,
                                             !.eventsLeft = MaxEvents])
    /\ UNCHANGED <<svars, contacts, conversations, messages, now, issued>>

\* for (const change of entry.changes): the tenant lookup of the next value
\* block, or the return after the last one
WebhookBlock(p, in) ==
    /\ pc[p] = "block"
    /\ IF loc[p].blocksLeft = 0
       THEN Finish(p, "ok", loc[p])
       ELSE \E pid \in in.phoneIds,
               nm \in 0..loc[p].eventsLeft, ns \in 0..loc[p].eventsLeft :
            LET company == CompanyByPhoneId(pid)
            IN  /\ nm + ns <= loc[p].eventsLeft
                /\ in.statuses = {} => ns = 0
                /\ IF pid = "undefined" \/ company = "none"
                   THEN Goto(p, "block", [loc[p] EXCEPT !.blocksLeft = @ - 1,
                                                       !.eventsLeft = @ - nm - ns,
                                                       !.pid = pid,
                                                       !.st = NoStatus,
                                                       !.stTimes = 0,
                                                       !.dropped = @ + 1])
                   ELSE Goto(p, "message", [loc[p] EXCEPT !.companyId = company,
                                                          !.pid = pid,
                                                          !.st = NoStatus,
                                                          !.stTimes = 0,
                                                          !.msgsLeft = nm,
                                                          !.stLeft = ns,
                                                          !.eventsLeft = @ - nm - ns])
    /\ UNCHANGED <<svars, contacts, conversations, messages, now, issued, started, parallel, req>>

\* processIncomingMessages: for (const message of messages), up to the
\* contact lookup
InNext(p, in) ==
    /\ pc[p] = "message"
    /\ IF loc[p].msgsLeft = 0
       THEN Goto(p, "status", loc[p])
       ELSE \E ev \in in.events :
            IF ev.from = NoPhone
            THEN Goto(p, "message", [loc[p] EXCEPT !.msgsLeft = @ - 1])
            ELSE Goto(p, "inFindContact",
                      [loc[p] EXCEPT !.ev = ev,
                                     !.phone = normalizePhoneNumber(ev.from)])
    /\ UNCHANGED <<svars, contacts, conversations, messages, now, issued, started, parallel, req>>

\* let contact = await prisma.contact.findUnique(...)
InFindContact(p) ==
    /\ pc[p] = "inFindContact"
    /\ LET contact == FindContact(loc[p].companyId, loc[p].phone)
       IN  Goto(p, IF contact = NoRow THEN "inCreateContact" ELSE "inUpdateContact",
                [loc[p] EXCEPT !.contact = contact])
    /\ UNCHANGED <<svars, contacts, conversations, messages, now, issued, started, parallel, req>>

\* contact = await prisma.contact.create({ ... lastMessageAt: new Date(timestamp) })
InCreateContact(p) ==
    /\ pc[p] = "inCreateContact"
    /\ IF ContactKeyTaken(loc[p].companyId, loc[p].phone)
       THEN /\ Finish(p, "UniqueConflict", loc[p])
            /\ contacts' = contacts
       ELSE /\ contacts' = Append(contacts,
                   [companyId |-> loc[p].companyId, phone |-> loc[p].phone,
                    lastMessageAt |-> loc[p].ev.timestamp])
            /\ Goto(p, "inFindConversation",
                    [loc[p] EXCEPT !.contact = Len(contacts) + 1])
    /\ UNCHANGED <<svars, conversations, messages, now, issued, started, parallel, req>>

\* await prisma.contact.update({ data: { lastMessageAt: new Date(timestamp) } })
InUpdateContact(p) ==
    /\ pc[p] = "inUpdateContact"
    /\ contacts' = [contacts EXCEPT ![loc[p].contact].lastMessageAt = loc[p].ev.timestamp]
    /\ Goto(p, "inFindConversation", loc[p])
    /\ UNCHANGED <<svars, conversations, messages, now, issued, started, parallel, req>>

\* let conversation = await prisma.conversation.findUnique(...)
InFindConversation(p) ==
    /\ pc[p] = "inFindConversation"
    /\ LET conversation == FindConversation(loc[p].companyId, loc[p].contact)
       IN  Goto(p, IF conversation = NoRow THEN "inCreateConversation"
                   ELSE "inUpdateConversation",
                [loc[p] EXCEPT !.conversation = conversation])
    /\ UNCHANGED <<svars, contacts, conversations, messages, now, issued, started, parallel, req>>

\* conversation = await prisma.conversation.create({ status: 'OPEN', lastMessageAt })
InCreateConversation(p) ==
    /\ pc[p] = "inCreateConversation"
    /\ IF ConversationKeyTaken(loc[p].companyId, loc[p].contact)
       THEN /\ Finish(p, "UniqueConflict", loc[p])
            /\ conversations' = conversations
       ELSE /\ conversations' = Append(conversations,
                   [companyId |-> loc[p].companyId, contactId |-> loc[p].contact,
                    status |-> "OPEN", lastMessageAt |-> loc[p].ev.timestamp])
            /\ Goto(p, "inSave", [loc[p] EXCEPT !.conversation = Len(conversations) + 1])
    /\ UNCHANGED <<svars, contacts, messages, now, issued, started, parallel, req>>

\* the update that leaves the status as it is
Reopened_KeepsStatus(conversation, timestamp) ==
    [conversation EXCEPT !.lastMessageAt = timestamp]
\* data: { status: 'OPEN', lastMessageAt: new Date(timestamp) }
Reopened(conversation, timestamp) ==
    [conversation EXCEPT !.status = "OPEN", !.lastMessageAt = timestamp]

\* await prisma.conversation.update({ data: { status: 'OPEN', lastMessageAt } })
InUpdateConversation(p) ==
    /\ pc[p] = "inUpdateConversation"
    /\ conversations' = [conversations EXCEPT
           ![loc[p].conversation] = Reopened(@, loc[p].ev.timestamp)]
    /\ Goto(p, "inSave", loc[p])
    /\ UNCHANGED <<svars, contacts, messages, now, issued, started, parallel, req>>

\* what prisma.message.create of an inbound event throws, "none" if it inserts:
\* messageType.toUpperCase() on a missing type, a type outside the enum, a
\* remote id already stored
InSaveError(ev) ==
    IF ev.type = NoType THEN "TypeError"
    ELSE IF toUpperCase(ev.type) \notin MessageTypes THEN "InvalidEnumValue"
    ELSE IF WamidTaken(ev.id) THEN "UniqueConflict"
    ELSE "none"

\* the row stamped with the time of processing
InboundRow_ProcessingTime(companyId, contactId, conversationId, ev) ==
    MessageRow(companyId, contactId, conversationId, ev.id, toUpperCase(ev.type),
               "INBOUND", "DELIVERED", NoError, now, now)
\* data of the insert: sentAt and deliveredAt are new Date(timestamp)
InboundRow(companyId, contactId, conversationId, ev) ==
    MessageRow(companyId, contactId, conversationId, ev.id, toUpperCase(ev.type),
               "INBOUND", "DELIVERED", NoError, ev.timestamp, ev.timestamp)

\* await prisma.message.create({ ... direction: 'INBOUND', status: 'DELIVERED' });
\* nothing catches what it throws
InSave(p) ==
    /\ pc[p] = "inSave"
    /\ Len(messages) < MaxMessages
    /\ LET ev == loc[p].ev
       IN  IF InSaveError(ev) # "none"
           THEN /\ Finish(p, InSaveError(ev), loc[p])
                /\ messages' = messages
           ELSE /\ messages' = Append(messages,
                       InboundRow(loc[p].companyId, loc[p].contact,
                                  loc[p].conversation, ev))
                /\ Goto(p, "message", [loc[p] EXCEPT !.msgsLeft = @ - 1,
                                                     !.rows = @ + 1,
                                                     !.row = Len(messages) + 1])
    /\ UNCHANGED <<svars, contacts, conversations, now, issued, started, parallel, req>>

\* processStatusUpdates: for (const status of statuses) prisma.message.updateMany,
\* and the end of the value block after the last status
WebhookStatus(p, in) ==
    /\ pc[p] = "status"
    /\ IF loc[p].stLeft = 0
       THEN /\ Goto(p, "block", [loc[p] EXCEPT !.blocksLeft = @ - 1,
                                                 !.st = NoStatus, !.stTimes = 0])
            /\ messages' = messages
       ELSE \E st \in in.statuses, strict \in StrictUndefinedChecks :
            IF (st.id = NoStatusId /\ strict) \/ StatusRefused(st)
            THEN /\ Finish(p, "ValidationError", [loc[p] EXCEPT !.st = st])
                 /\ messages' = messages
            ELSE /\ messages' = UpdateMany(messages, loc[p].companyId, st)
                 /\ Goto(p, "status",
                         [loc[p] EXCEPT !.stLeft = @ - 1, !.st = st,
                                        !.stTimes = IF st = loc[p].st THEN @ + 1 ELSE 1])
    /\ UNCHANGED <<svars, contacts, conversations, now, issued, started, parallel, req>>

\* the requests that arrive
Inputs ==
    [tenants |-> SendTenants, phones |-> SendPhones, signatures |-> Signatures,
     blocks |-> 0..MaxBlocks, phoneIds |-> PhoneIds \cup {"undefined"},
     events |-> InEvents, statuses |-> StatusEvents, errors |-> ProviderErrors]

\* requests for one recipient of one tenant, no status events
RaceInputs ==
    [tenants |-> SendTenants, phones |-> {PhoneIntl, PhoneLocal},
     signatures |-> {NoSignature}, blocks |-> {1}, phoneIds |-> {"pnA"},
     events |-> {ev \in InEvents : ev.from = PhoneWire /\ ev.type = "text"},
     statuses |-> {}, errors |-> ProviderErrors]

\* a send to one recipient, and webhook batches of two known tenants whose
\* status events may lack their id
StatusInputs ==
    [tenants |-> SendTenants, phones |-> {PhoneIntl},
     signatures |-> {SignatureHeader(HmacSha256(webhookAppSecret, Payload))},
     blocks |-> 1..MaxBlocks, phoneIds |-> {"pnA", "pnB"},
     events |-> {ev \in InEvents : ev.from = PhoneWire /\ ev.type = "text"
                                   /\ ev.timestamp = 0},
     statuses |-> StatusEventsOf({OutIds[1], NoStatusId})
                  \cup [id : {OutIds[1]}, status : InheritedKeys, error : {NoError}],
     errors |-> ProviderErrors]

\* sends to one recipient that fail in every way the provider can make them
\* fail, after a webhook batch that opens the window
ErrorInputs ==
    [tenants |-> SendTenants, phones |-> {PhoneIntl},
     signatures |-> {SignatureHeader(HmacSha256(webhookAppSecret, Payload))},
     blocks |-> {1}, phoneIds |-> {"pnA"},
     events |-> {ev \in InEvents : ev.from = PhoneWire /\ ev.type = "text"
                                   /\ ev.timestamp = 0 /\ ev.id = "wamid.i1"},
     statuses |-> StatusEventsOf({OutIds[1]}), errors |-> CodedErrors]

Step(p, in) ==
    \/ \E kind \in SendKinds, companyId \in in.tenants, phoneNumber \in in.phones :
           StartSend(p, kind, companyId, phoneNumber)
    \/ SendFindContact(p)
    \/ SendCreateContact(p)
    \/ SendFindConversation(p)
    \/ SendCreateConversation(p)
    \/ SendCheckWindow(p)
    \/ SendCheckHistory(p)
    \/ SendPost(p, in)
    \/ SendTouchConversation(p)
    \/ SendSaveSent(p)
    \/ SendSaveFailed(p)
    \/ \E companyId \in in.tenants, phoneNumber \in in.phones :
           StartMedia(p, companyId, phoneNumber)
    \/ MediaPost(p)
    \/ \E signature \in in.signatures, blocks \in in.blocks :
           StartWebhook(p, signature, blocks)
    \/ WebhookBlock(p, in)
    \/ InNext(p, in)
    \/ InFindContact(p)
    \/ InCreateContact(p)
    \/ InUpdateContact(p)
    \/ InFindConversation(p)
    \/ InCreateConversation(p)
    \/ InUpdateConversation(p)
    \/ InSave(p)
    \/ WebhookStatus(p, in)
    \/ Return(p)

\* requests served one after the other
Next == (\E p \in Procs : Step(p, Inputs)) \/ Tick

Spec == Init /\ [][Next]_vars

\* NumProcs requests in flight at once
InitRace ==
    /\ contacts = <<>>
    /\ conversations = <<>>
    /\ messages = <<>>
    /\ now = 0
    /\ issued = 0
    /\ started = 0
    /\ parallel = NumProcs
    /\ pc = [p \in Procs |-> "idle"]
    /\ req = [p \in Procs |-> NoReq]
    /\ loc = [p \in Procs |-> LocInit]
    /\ templates = <<>>
    /\ submitting = NoSubmit
    /\ campaigns = <<>>
    /\ webhookVerifyToken = "verify-token"
    /\ call = NoCall

NextRace == (\E p \in Procs : Step(p, RaceInputs)) \/ Tick

SpecRace == InitRace /\ [][NextRace]_vars

\* requests served one after the other, status events with and without id
NextStatus == (\E p \in Procs : Step(p, StatusInputs)) \/ Tick

SpecStatus == Init /\ [][NextStatus]_vars

\* one recipient writes in and is written to
WindowInputs ==
    [tenants |-> SendTenants, phones |-> {PhoneIntl},
     signatures |-> {SignatureHeader(HmacSha256(webhookAppSecret, Payload))},
     blocks |-> {1}, phoneIds |-> {"pnA"},
     events |-> {ev \in InEvents : ev.from = PhoneWire /\ ev.type = "text"},
     statuses |-> StatusEventsOf({OutIds[1]}), errors |-> ProviderErrors]

\* enum "ConversationStatus": an agent resolves or closes an open conversation
\* (the code that does it is not part of the engine)
CloseConversation ==
    /\ \E i \in 1..Len(conversations), status \in {"RESOLVED", "CLOSED"} :
          /\ conversations[i].status = "OPEN"
          /\ conversations' = [conversations EXCEPT ![i].status = status]
    /\ UNCHANGED <<svars, contacts, messages, now, issued, started, parallel, pc, req, loc>>

\* requests served one after the other while conversations get closed
NextWindow == (\E p \in Procs : Step(p, WindowInputs)) \/ Tick \/ CloseConversation

SpecWindow == Init /\ [][NextWindow]_vars

\* requests served one after the other, every provider failure
NextErrors == (\E p \in Procs : Step(p, ErrorInputs)) \/ Tick

SpecErrors == Init /\ [][NextErrors]_vars


\* --------------------------------------------------- verification handshake
\* a query parameter the request does not carry, an environment variable
\* that is not set
NoParam == "undefined"
\* values of WHATSAPP_WEBHOOK_VERIFY_TOKEN
ConfiguredTokens == {NoParam, "", "verify-token"}
\* hub.mode, hub.verify_token and hub.challenge of a request
Modes == {"subscribe", "unsubscribe", NoParam}
RequestTokens == {NoParam, "", "verify-token", "guess"}
Challenges == {"challenge-1", "challenge-2"}

\* a value JavaScript takes as true in a condition
Truthy(v) == v # NoParam /\ v # ""

\* responses of the HTTP layer
Respond(body) == [status |-> 200, body |-> body]
BadRequest(message) == [status |-> 400, body |-> message]

\* WhatsAppController.verifyWebhook, GET webhook
verifyWebhook(verifyToken, challenge, mode) ==
    IF mode = "subscribe"
    THEN LET expectedToken == webhookVerifyToken
         IN  IF ~Truthy(expectedToken)
             THEN BadRequest("Webhook verify token not configured")
             ELSE IF verifyToken = expectedToken
             THEN Respond(challenge)
             ELSE BadRequest("Invalid verify token")
    ELSE BadRequest("Invalid verification mode")

\* the verification branch of WhatsAppController.handleWebhook, POST webhook
\* in whatsapp.controller.ts; a request of another mode is answered as an
\* event delivery without signature
handleWebhookVerification(verifyToken, challenge, mode) ==
    IF mode = "subscribe"
    THEN LET expectedToken == webhookVerifyToken
         IN  IF verifyToken = expectedToken
             THEN Respond(challenge)
             ELSE BadRequest("Invalid verify token")
    ELSE Respond("status: ok")

\* the call is answered: out is what it returns or throws
Answer(out) ==
    /\ ~call.done
    /\ call' = [fn |-> call.fn, in |-> call.in, done |-> TRUE, out |-> out]
    /\ UNCHANGED <<mvars, templates, submitting, campaigns, webhookVerifyToken>>

\* GET /whatsapp/webhook
GetWebhook ==
    /\ call.fn = "verifyWebhook"
    /\ Answer(verifyWebhook(call.in.verifyToken, call.in.challenge, call.in.mode))

\* POST /whatsapp/webhook with hub.* query parameters
PostWebhook ==
    /\ call.fn = "handleWebhook"
    /\ Answer(handleWebhookVerification(call.in.verifyToken, call.in.challenge,
                                        call.in.mode))

\* nothing stored, no request in flight
EngineIdle ==
    /\ contacts = <<>>
    /\ conversations = <<>>
    /\ messages = <<>>
    /\ now = 0
    /\ issued = 0
    /\ started = 0
    /\ parallel = 1
    /\ pc = [p \in Procs |-> "idle"]
    /\ req = [p \in Procs |-> NoReq]
    /\ loc = [p \in Procs |-> LocInit]
    /\ templates = <<>>
    /\ submitting = NoSubmit
    /\ campaigns = <<>>

\* a deployment with any setting of the verify token receives a handshake
InitHandshake ==
    /\ EngineIdle
    /\ webhookVerifyToken \in ConfiguredTokens
    /\ call \in [fn : {"verifyWebhook", "handleWebhook"},
                  in : [verifyToken : RequestTokens, challenge : Challenges,
                        mode : Modes],
                  done : {FALSE}]

NextHandshake == GetWebhook \/ PostWebhook

SpecHandshake == InitHandshake /\ [][NextHandshake]_vars


\* ------------------------------------------------------ template components
\* texts are tuples of characters, as the phone numbers are
\* parseInt(match[1], 10) of a run of digits
DigitValue(c) ==
    CASE c = "0" -> 0 [] c = "1" -> 1 [] c = "2" -> 2 [] c = "3" -> 3
      [] c = "4" -> 4 [] c = "5" -> 5 [] c = "6" -> 6 [] c = "7" -> 7
      [] c = "8" -> 8 [] c = "9" -> 9
RECURSIVE parseInt(_)
parseInt(ds) ==
    IF Len(ds) = 0 THEN 0
    ELSE 10 * parseInt(SubSeq(ds, 1, Len(ds) - 1)) + DigitValue(ds[Len(ds)])

\* the matches of /{{(\d+)}}/g in text: <<i, j>> where the braces open at i
\* and close at j, with one or more digits and nothing else between them
PlaceholderMatches(text) ==
    {m \in (1..Len(text)) \X (1..Len(text)) :
        /\ m[2] >= m[1] + 3 /\ m[2] + 1 <= Len(text)
        /\ text[m[1]] = "{" /\ text[m[1] + 1] = "{"
        /\ text[m[2]] = "}" /\ text[m[2] + 1] = "}"
        /\ \A k \in (m[1] + 2)..(m[2] - 1) : text[k] \in Digits}
\* match[1] of a match
MatchIndex(text, m) == parseInt(SubSeq(text, m[1] + 2, m[2] - 1))

\* the indexes as a set; the code returns them as a sorted array
getPlaceholderIndexes(text) ==
    {v \in {MatchIndex(text, m) : m \in PlaceholderMatches(text)} : v > 0}

\* if (index > 10)
MaxPlaceholders == 10
\* "ok" when the function returns, otherwise the message of the exception
\* thrown at the first match that is out of range, or for a gap
validatePlaceholderSequence(text) ==
    LET matches == PlaceholderMatches(text)
        found == {MatchIndex(text, m) : m \in matches}
        bad == {m \in matches : MatchIndex(text, m) < 1
                                \/ MatchIndex(text, m) > MaxPlaceholders}
    IN  IF bad # {}
        THEN LET first == CHOOSE m \in bad : \A n \in bad : m[1] <= n[1]
             IN  IF MatchIndex(text, first) < 1
                 THEN "Placeholder indexes must be positive numbers"
                 ELSE "A maximum of 10 placeholders are allowed in the body"
        ELSE IF found # {} /\ \E i \in 1..MaxPlaceholders :
                                 /\ i \notin found
                                 /\ \E v \in found : v > i
        THEN "Placeholders must be sequential without gaps"
        ELSE "ok"

\* pieces body texts are put together from
BodyPieces ==
    {<<"H", "i", " ">>,
     <<"{", "{", "1", "}", "}">>, <<"{", "{", "2", "}", "}">>,
     <<"{", "{", "3", "}", "}">>, <<"{", "{", "0", "}", "}">>,
     <<"{", "{", "1", "1", "}", "}">>, <<"{", "{", "x", "}", "}">>}
\* pieces in one body text
MaxPieces == 3
RECURSIVE Concat(_)
Concat(ps) == IF Len(ps) = 0 THEN <<>> ELSE Head(ps) \o Concat(Tail(ps))
BodyTexts ==
    {Concat(ps) : ps \in UNION {[1..n -> BodyPieces] : n \in 0..MaxPieces}}

\* this.validatePlaceholderSequence(bodyText)
ValidateSequence ==
    /\ call.fn = "validatePlaceholderSequence"
    /\ Answer(validatePlaceholderSequence(call.in))

\* JSON values of an example payload: a string (items: its characters), an
\* array (items: its elements), or a value that is missing or null
Str(chars) == [kind |-> "string", items |-> chars]
Arr(elements) == [kind |-> "array", items |-> elements]
Undef == [kind |-> "undefined", items |-> <<>>]

\* String.prototype.trim
Trim(chars) ==
    LET keep == {i \in 1..Len(chars) : chars[i] # " "}
    IN  IF keep = {} THEN <<>>
        ELSE SubSeq(chars, CHOOSE i \in keep : \A k \in keep : i <= k,
                           CHOOSE j \in keep : \A k \in keep : k <= j)

\* the first component of the given type, 0 if there is none
FindComponent(components, type) ==
    IF \E i \in 1..Len(components) : components[i].type = type
    THEN CHOOSE i \in 1..Len(components) :
            /\ components[i].type = type
            /\ \A k \in 1..(i - 1) : components[k].type # type
    ELSE 0

\* normalizeAndValidateComponents for component lists without HEADER whose
\* texts are within the length limits: error is the message of the exception
\* thrown, "none" when the components are returned. The components are
\* shallow copies ({ ...component, example: component?.example }), so each
\* shares its example object with the caller's component: rawComponents is
\* the caller's list as the call leaves it
normalizeAndValidateComponents(rawComponents) ==
    LET components == [i \in 1..Len(rawComponents) |->
                          [rawComponents[i] EXCEPT !.type = toUpperCase(@)]]
        body == FindComponent(components, "BODY")
        bodyText == Trim(components[body].text)
        bodyPlaceholderIndexes == getPlaceholderIndexes(bodyText)
        bodyExample == components[body].example.body_text
        exampleSource ==
            IF ~components[body].example.present \/ bodyExample.kind # "array"
            THEN <<>>
            ELSE IF Len(bodyExample.items) > 0 /\ bodyExample.items[1].kind = "array"
            THEN bodyExample.items[1].items
            ELSE bodyExample.items
        trimmed == [i \in 1..Len(exampleSource) |->
                       IF exampleSource[i].kind = "string"
                       THEN Str(Trim(exampleSource[i].items)) ELSE Undef]
        normalizedSamples == SelectSeq(trimmed, LAMBDA v : v.kind = "string"
                                                          /\ v.items # <<>>)
        failed(message) == [error |-> message, components |-> <<>>,
                            rawComponents |-> rawComponents]
    IN  IF Len(rawComponents) = 0
        THEN failed("At least one template component is required")
        ELSE IF body = 0 \/ bodyText = <<>>
        THEN failed("Template body is required and cannot be empty")
        ELSE IF validatePlaceholderSequence(bodyText) # "ok"
        THEN failed(validatePlaceholderSequence(bodyText))
        ELSE IF bodyPlaceholderIndexes # {}
        THEN IF Len(normalizedSamples) < Cardinality(bodyPlaceholderIndexes)
             THEN failed("Provide sample values for every body placeholder")
             ELSE [error |-> "none",
                   components |-> [components EXCEPT ![body].example =
                       [present |-> TRUE,
                        body_text |-> Arr(<<Arr(normalizedSamples)>>)]],
                   rawComponents |-> rawComponents]
        ELSE [error |-> "none",
              components |-> [components EXCEPT ![body].example.body_text = Undef],
              rawComponents |->
                  IF components[body].example.present
                  THEN [rawComponents EXCEPT ![body].example.body_text = Undef]
                  ELSE rawComponents]

\* body_text wrapped whether or not it is nested already
NestOnce_Always(bodyText) == Arr(<<bodyText>>)
\* Array.isArray(bodyText[0]) ? bodyText : [bodyText]
NestOnce(bodyText) ==
    IF bodyText.items[1].kind = "array" THEN bodyText ELSE Arr(<<bodyText>>)

\* buildMetaComponents: the payload of each component; text <<>> and example
\* Undef stand for a property the payload does not have
buildMetaComponents(components) ==
    [i \in 1..Len(components) |->
        LET component == components[i]
            bodyText == component.example.body_text
        IN  [type |-> component.type,
             text |-> component.text,
             example |-> IF /\ component.example.present
                            /\ bodyText.kind = "array"
                            /\ Len(bodyText.items) > 0
                         THEN NestOnce(bodyText) ELSE Undef]]

\* sample values and example payloads of a raw BODY component
Samples ==
    {Str(<<"S", "a", "m">>), Str(<<" ", "S", "a", "m", " ">>), Str(<<" ">>), Undef}
\* sample values in one example
MaxSamples == 2
SampleRows == UNION {[1..n -> Samples] : n \in 0..MaxSamples}
BodyExamples ==
    {[present |-> FALSE, body_text |-> Undef], [present |-> TRUE, body_text |-> Undef],
     [present |-> TRUE, body_text |-> Str(<<"S", "a", "m">>)]}
    \cup {[present |-> TRUE, body_text |-> Arr(row)] : row \in SampleRows}
    \cup {[present |-> TRUE, body_text |-> Arr(<<Arr(row)>>)] : row \in SampleRows}
\* raw component lists: none, a BODY, a BODY and a FOOTER
RawComponents ==
    {<<>>}
    \cup {<<[type |-> t, text |-> Concat(ps), example |-> e]>> :
             t \in {"body", "BODY"}, ps \in UNION {[1..n -> BodyPieces] : n \in 0..2},
             e \in BodyExamples}
    \cup {<<[type |-> "FOOTER", text |-> <<"b", "y", "e">>,
            example |-> [present |-> FALSE, body_text |-> Undef]],
           [type |-> "BODY", text |-> <<"H", "i", " ">> \o p, example |-> e]>> :
             p \in BodyPieces, e \in BodyExamples}

\* submitToMeta: this.normalizeAndValidateComponents(template.components)
\* followed by this.buildMetaComponents(normalizedComponents)
NormalizeAndBuild ==
    /\ call.fn = "normalizeAndValidateComponents"
    /\ LET normalized == normalizeAndValidateComponents(call.in)
       IN  Answer([error |-> normalized.error, components |-> normalized.components,
                   payload |-> buildMetaComponents(normalized.components),
                   rawComponents |-> normalized.rawComponents])

\* a call of a component helper with drawn arguments
InitComponents ==
    /\ EngineIdle
    /\ webhookVerifyToken = "verify-token"
    /\ call \in [fn : {"validatePlaceholderSequence"}, in : BodyTexts, done : {FALSE}]
               \cup [fn : {"normalizeAndValidateComponents"}, in : RawComponents,
                     done : {FALSE}]

NextComponents == ValidateSequence \/ NormalizeAndBuild

SpecComponents == InitComponents /\ [][NextComponents]_vars


\* --------------------------------------------------------- TemplatesService
\* requests of users who pass validateAccess, for tenants connected to a
\* business account, served one after the other
MaxTemplateOps == 4      \* template requests in one behaviour
MaxTemplates == 2        \* rows of the templates table
MaxRemote == 1           \* templates in one answer of GET message_templates

NoTemplateId == "null"     \* null whatsapp_template_id, response without id
NoReason == "null"         \* null rejection_reason
\* ids the provider gives to submitted templates, in this order
MetaIds == <<"meta-1", "meta-2", "meta-3">>
\* the id of a template that was made at the provider
MadeAtMeta == "meta-0"

\* name?.toLowerCase().replace(/[^a-z0-9_]/g, '_')
sanitizeTemplateName(name) ==
    [i \in 1..Len(name) |->
        LET c == CASE name[i] = "P" -> "p" [] name[i] = "Q" -> "q" [] OTHER -> name[i]
        IN  IF c \in Digits \cup {"p", "q", "_"} THEN c ELSE "_"]

mapMetaStatus(status) ==
    CASE status = "APPROVED" -> "APPROVED"
      [] status = "REJECTED" -> "REJECTED"
      [] OTHER -> "PENDING"

mapMetaCategory(category) ==
    CASE category = "MARKETING" -> "MARKETING"
      [] category = "AUTHENTICATION" -> "AUTHENTICATION"
      [] OTHER -> "UTILITY"

\* prisma.template.findFirst({ where: { id, companyId } })
FindTemplate(id, companyId) ==
    IF id \in 1..Len(templates) /\ templates[id].companyId = companyId
    THEN id ELSE NoRow

\* prisma.template.findUnique({ where: { companyId_name } })
FindTemplateByName(ts, companyId, name) ==
    IF \E i \in 1..Len(ts) : ts[i].companyId = companyId /\ ts[i].name = name
    THEN CHOOSE i \in 1..Len(ts) : ts[i].companyId = companyId /\ ts[i].name = name
    ELSE NoRow

\* prisma.template.findUnique({ where: { whatsappTemplateId: metaId } })
FindTemplateByMetaId(ts, metaId) ==
    IF \E i \in 1..Len(ts) : ts[i].whatsappTemplateId = metaId
    THEN CHOOSE i \in 1..Len(ts) : ts[i].whatsappTemplateId = metaId
    ELSE NoRow

\* the request is answered: id is the row it was made for (the tenant, for
\* syncFromMeta), out is "ok" or the message of the exception
Served(fn, id, out) ==
    /\ started' = started + 1
    /\ call' = [fn |-> fn, in |-> id, done |-> TRUE, out |-> out]
    /\ UNCHANGED <<contacts, conversations, messages, now, parallel, pc, req, loc,
                   webhookVerifyToken>>

\* TemplatesService.create
Create(companyId, dto) ==
    /\ started < MaxTemplateOps /\ submitting = NoSubmit
    /\ Len(templates) < MaxTemplates
    /\ LET name == sanitizeTemplateName(dto.name)
           normalized == normalizeAndValidateComponents(dto.components)
           thrown == IF name = <<>> THEN "Template name must contain only lowercase letters"
                     ELSE IF FindTemplateByName(templates, companyId, name) # NoRow
                     THEN "Template with this name already exists"
                     ELSE normalized.error
       IN  /\ templates' =
                 IF thrown # "none" THEN templates
                 ELSE Append(templates,
                        [companyId |-> companyId, name |-> name,
                         category |-> dto.category, language |-> "en_US",
                         components |-> normalized.components, status |-> "DRAFT",
                         whatsappTemplateId |-> NoTemplateId,
                         rejectionReason |-> NoReason])
           /\ Served("create", Len(templates) + 1, IF thrown = "none" THEN "ok" ELSE thrown)
    /\ UNCHANGED <<issued, submitting, campaigns>>

\* a field updateData does not have
NoField == "undefined"

\* TemplatesService.update; updateData holds one field or none
Update(companyId, id, field, value) ==
    /\ started < MaxTemplateOps /\ submitting = NoSubmit
    /\ LET template == FindTemplate(id, companyId)
           name == IF field = "name" THEN sanitizeTemplateName(value) ELSE <<>>
           nameConflict == FindTemplateByName(templates, companyId, name)
           normalized == IF field = "components"
                         THEN normalizeAndValidateComponents(value)
                         ELSE [error |-> "none", components |-> <<>>,
                               rawComponents |-> <<>>]
           thrown ==
               IF template = NoRow THEN "Template not found"
               ELSE IF templates[id].status = "APPROVED"
                       /\ templates[id].whatsappTemplateId # NoTemplateId
               THEN "Cannot update approved template. Create a new version instead."
               ELSE IF field = "name" /\ nameConflict # NoRow /\ nameConflict # id
               THEN "Another template already uses this name"
               ELSE normalized.error
       IN  /\ templates' =
                 IF thrown # "none" THEN templates
                 ELSE CASE field = "name" -> [templates EXCEPT ![id].name = name]
                        [] field = "category" -> [templates EXCEPT ![id].category = value]
                        [] field = "components" ->
                              [templates EXCEPT ![id].components = normalized.components]
                        [] OTHER -> templates
           /\ Served("update", id, IF thrown = "none" THEN "ok" ELSE thrown)
    /\ UNCHANGED <<issued, submitting, campaigns>>

\* TemplatesService.submitToMeta up to its provider call: a rejected template
\* is deleted at the provider and reset before it is submitted again
SubmitToMeta(companyId, id) ==
    /\ started < MaxTemplateOps /\ submitting = NoSubmit
    /\ LET template == FindTemplate(id, companyId)
           resubmit == templates[id].status = "REJECTED"
                       /\ templates[id].whatsappTemplateId # NoTemplateId
           thrown ==
               IF template = NoRow THEN "Template not found"
               ELSE IF templates[id].whatsappTemplateId # NoTemplateId
                       /\ templates[id].status # "REJECTED"
               THEN "Template already submitted to Meta"
               ELSE normalizeAndValidateComponents(templates[id].components).error
       IN  /\ templates' =
                 IF template # NoRow /\ resubmit
                 THEN [templates EXCEPT ![id].whatsappTemplateId = NoTemplateId,
                                        ![id].status = "DRAFT"]
                 ELSE templates
           /\ IF thrown # "none"
              THEN Served("submitToMeta", id, thrown) /\ submitting' = submitting
              ELSE /\ submitting' =
                        [NoSubmit EXCEPT
                            !.fn = "submitToMeta", !.id = id, !.companyId = companyId,
                            !.found = [status |-> templates[id].status,
                                       whatsappTemplateId |->
                                           templates[id].whatsappTemplateId]]
                   /\ UNCHANGED <<mvars, webhookVerifyToken, call>>
    /\ UNCHANGED <<issued, campaigns>>

\* const response = await apiClient.post(`/${whatsappBusinessId}/message_templates`)
\* and what follows it
SubmitAnswered(accepted) ==
    /\ submitting.fn = "submitToMeta"
    /\ issued < Len(MetaIds)
    /\ submitting' = NoSubmit
    /\ campaigns' = campaigns
    /\ IF accepted
       THEN /\ templates' = [templates EXCEPT
                   ![submitting.id].status = "PENDING",
                   ![submitting.id].whatsappTemplateId = MetaIds[issued + 1],
                   ![submitting.id].rejectionReason = NoReason]
            /\ issued' = issued + 1
            /\ Served("submitToMeta", submitting.id, "ok")
       ELSE /\ templates' = templates
            /\ issued' = issued
            /\ Served("submitToMeta", submitting.id, "Failed to submit template to Meta")

\* the table after the loop of syncFromMeta over the remote templates; error
\* is what a refused update or insert throws, which ends the loop
RECURSIVE SyncAll(_, _, _)
SyncAll(ts, companyId, remoteTemplates) ==
    IF remoteTemplates = <<>> THEN [templates |-> ts, error |-> "none"]
    ELSE LET remoteTemplate == Head(remoteTemplates)
             metaId == remoteTemplate.id
             status == mapMetaStatus(remoteTemplate.status)
             byId == IF metaId # NoTemplateId THEN FindTemplateByMetaId(ts, metaId)
                     ELSE NoRow
             existing == IF byId # NoRow THEN byId
                         ELSE FindTemplateByName(ts, companyId, remoteTemplate.name)
             payload(row) ==
                 [row EXCEPT
                    !.name = remoteTemplate.name, !.language = "en_US",
                    !.category = mapMetaCategory(remoteTemplate.category),
                    !.status = status, !.components = remoteTemplate.components,
                    !.whatsappTemplateId = IF metaId # NoTemplateId THEN metaId ELSE @,
                    !.rejectionReason = IF status = "REJECTED"
                                        THEN remoteTemplate.rejection_reason
                                        ELSE NoReason]
             nameTaken(row) ==
                 \E i \in 1..Len(ts) : /\ i # existing
                                       /\ ts[i].companyId = row.companyId
                                       /\ ts[i].name = row.name
         IN  IF existing # NoRow
             THEN IF nameTaken(payload(ts[existing]))
                  THEN [templates |-> ts, error |-> "Failed to sync templates from Meta"]
                  ELSE SyncAll([ts EXCEPT ![existing] = payload(ts[existing])],
                               companyId, Tail(remoteTemplates))
             ELSE SyncAll(Append(ts, payload([companyId |-> companyId, name |-> <<>>,
                                              category |-> "UTILITY", language |-> "en_US",
                                              components |-> <<>>, status |-> "PENDING",
                                              whatsappTemplateId |-> NoTemplateId,
                                              rejectionReason |-> NoReason])),
                          companyId, Tail(remoteTemplates))

\* TemplatesService.syncFromMeta; remoteTemplates: response.data.data
SyncFromMeta(companyId, remoteTemplates) ==
    /\ started < MaxTemplateOps /\ submitting = NoSubmit
    /\ \A k \in 1..Len(remoteTemplates) :
          remoteTemplates[k].id \in {MadeAtMeta} \cup {MetaIds[j] : j \in 1..issued}
    /\ LET synced == SyncAll(templates, companyId, remoteTemplates)
       IN  /\ Len(synced.templates) <= MaxTemplates
           /\ templates' = synced.templates
           /\ Served("syncFromMeta", companyId,
                     IF synced.error = "none" THEN "ok" ELSE synced.error)
    /\ UNCHANGED <<issued, submitting, campaigns>>

\* no template: template_id is null
NoTemplate == NoRow
\* campaigns in one behaviour
MaxCampaigns == 1

\* CampaignsService.create with a templateId: the template is looked up and
\* has to be approved before the campaign is stored; campaigns are made
\* while a template request waits as well
CreateCampaign(companyId, templateId) ==
    /\ started < MaxTemplateOps
    /\ Len(campaigns) < MaxCampaigns
    /\ LET thrown ==
               IF FindTemplate(templateId, companyId) = NoRow THEN "Template not found"
               ELSE IF templates[templateId].status # "APPROVED"
               THEN "Template must be approved to use in campaigns"
               ELSE "none"
       IN  /\ campaigns' =
                 IF thrown # "none" THEN campaigns
                 ELSE Append(campaigns, [companyId |-> companyId,
                                         templateId |-> templateId])
           /\ Served("createCampaign", templateId,
                     IF thrown = "none" THEN "ok" ELSE thrown)
    /\ UNCHANGED <<issued, submitting, templates>>

\* the check left out
CampaignCount_Unchecked(id) == 0
\* prisma.campaign.count({ where: { templateId: id } })
CampaignCount(id) ==
    Cardinality({k \in 1..Len(campaigns) : campaigns[k].templateId = id})

\* TemplatesService.delete up to await prisma.template.delete
Delete(companyId, id) ==
    /\ started < MaxTemplateOps /\ submitting = NoSubmit
    /\ LET campaignCount == CampaignCount(id)
           thrown ==
               IF FindTemplate(id, companyId) = NoRow THEN "Template not found"
               ELSE IF campaignCount > 0
               THEN "Cannot delete template that is used in campaigns"
               ELSE "none"
       IN  IF thrown # "none"
           THEN Served("delete", id, thrown) /\ submitting' = submitting
           ELSE /\ submitting' = [NoSubmit EXCEPT !.fn = "delete", !.id = id,
                                                   !.companyId = companyId,
                                                   !.campaignCount = campaignCount]
                /\ UNCHANGED <<mvars, webhookVerifyToken, call>>
    /\ UNCHANGED <<issued, templates, campaigns>>

\* a deleted row: row ids are not used again, and the row belongs to no
\* tenant and carries no remote id, so that no lookup finds it
Deleted(row) == [row EXCEPT !.companyId = "none", !.whatsappTemplateId = NoTemplateId]

\* await prisma.template.delete({ where: { id } }); campaigns_template_id_fkey
\* is ON DELETE SET NULL
DeleteRow ==
    /\ submitting.fn = "delete"
    /\ submitting' = NoSubmit
    /\ templates' = [templates EXCEPT ![submitting.id] = Deleted(@)]
    /\ campaigns' = [k \in 1..Len(campaigns) |->
                        IF campaigns[k].templateId = submitting.id
                        THEN [campaigns[k] EXCEPT !.templateId = NoTemplate]
                        ELSE campaigns[k]]
    /\ Served("delete", submitting.id, "ok")
    /\ issued' = issued

\* the arguments of the requests and the answers of the provider
TemplateNames == {<<"p">>, <<"Q", "!">>}
TemplateComponents ==
    {<<>>,
     <<[type |-> "BODY", text |-> <<"H", "i", " ">>,
        example |-> [present |-> FALSE, body_text |-> Undef]]>>,
     <<[type |-> "body", text |-> <<"{", "{", "1", "}", "}">>,
        example |-> [present |-> TRUE, body_text |-> Arr(<<Str(<<"S", "a", "m">>)>>)]]>>}
\* templates the provider lists: submitted from here or made at the provider
RemoteTemplates ==
    [id : {MetaIds[1], MadeAtMeta}, name : {<<"p">>},
     status : {"APPROVED", "REJECTED", "PAUSED"},
     category : {"MARKETING", "UTILITY"},
     components : {<<[type |-> "BODY", text |-> <<"H", "i", " ">>,
                      example |-> [present |-> FALSE, body_text |-> Undef]]>>},
     rejection_reason : {"INVALID_FORMAT"}]

\* the template and campaign requests of the given tenants
TemplateStep(tenants) ==
    \/ \E companyId \in tenants, name \in TemplateNames,
          components \in TemplateComponents :
           Create(companyId, [name |-> name, category |-> "MARKETING",
                              components |-> components])
    \/ \E companyId \in tenants, id \in 1..MaxTemplates :
           \/ \E name \in TemplateNames : Update(companyId, id, "name", name)
           \/ Update(companyId, id, "category", "UTILITY")
           \/ \E components \in TemplateComponents :
                 Update(companyId, id, "components", components)
           \/ Update(companyId, id, NoField, NoField)
    \/ \E companyId \in tenants, id \in 1..MaxTemplates : SubmitToMeta(companyId, id)
    \/ \E accepted \in BOOLEAN : SubmitAnswered(accepted)
    \/ \E companyId \in tenants, id \in 1..MaxTemplates : Delete(companyId, id)
    \/ DeleteRow
    \/ \E companyId \in tenants, id \in 1..MaxTemplates :
           CreateCampaign(companyId, id)
    \/ \E companyId \in tenants,
          remoteTemplates \in UNION {[1..n -> RemoteTemplates] : n \in 0..MaxRemote} :
           SyncFromMeta(companyId, remoteTemplates)

NextTemplates == TemplateStep(SendTenants)

SpecTemplates == Init /\ [][NextTemplates]_vars

\* two tenants that share a business account at the provider
NextTenants == TemplateStep(Tenants)

SpecTenants == Init /\ [][NextTenants]_vars


\* ------------------------------------------------------------- properties
Sends == {"text", "template", "media"}
\* worker p takes a step
Steps(p) == pc'[p] # pc[p] \/ loc'[p] # loc[p]
\* worker p has finished its request and not yet handed back the response
Finished(p) == pc[p] = "done"

\* C1: under any arrival order of sent, delivered and read status events the
\* status of a message never moves backward in SENT < DELIVERED < READ.
C1_Rank(status) ==
    CASE status = "SENT" -> 1
      [] status = "DELIVERED" -> 2
      [] status = "READ" -> 3
      [] OTHER -> 0
C1_StatusNeverMovesBackward ==
    [][\A i \in 1..Len(messages) :
          (C1_Rank(messages[i].status) > 0 /\ C1_Rank(messages'[i].status) > 0)
              => C1_Rank(messages[i].status) <= C1_Rank(messages'[i].status)]_vars

\* C2: FAILED is terminal: a Message row with status FAILED keeps that status
\* whatever status event is processed later.
C2_FailedIsTerminal ==
    [][\A i \in 1..Len(messages) :
          messages[i].status = "FAILED" => messages'[i].status = "FAILED"]_vars

\* C3: sendTextMessage reaches the provider call only if, when the checks are
\* evaluated, the conversation of (tenant, contact) has a last-message time
\* less than 24 hours old or the contact has an OUTBOUND message with status
\* SENT, DELIVERED or READ; otherwise the send is rejected with the
\* template-first error, without provider call and without Message row.
C3_FreshConversation(p) ==
    \E i \in 1..Len(conversations) :
        /\ conversations[i].companyId = req[p].companyId
        /\ conversations[i].contactId = loc[p].contact
        /\ conversations[i].lastMessageAt # NoTime
        /\ now - conversations[i].lastMessageAt < 24
C3_DeliveredHistory(p) ==
    \E i \in 1..Len(messages) :
        /\ messages[i].companyId = req[p].companyId
        /\ messages[i].contactId = loc[p].contact
        /\ messages[i].direction = "OUTBOUND"
        /\ messages[i].status \in {"SENT", "DELIVERED", "READ"}
C3_TextSendIsGated ==
    [][\A p \in Procs : (req[p].kind = "text" /\ Steps(p)) =>
          /\ pc[p] = "window" => (loc'[p].hasActiveWindow <=> C3_FreshConversation(p))
          /\ pc[p] = "history" =>
                IF loc[p].hasActiveWindow \/ C3_DeliveredHistory(p)
                THEN pc'[p] = "post"
                ELSE /\ pc'[p] = "done"
                     /\ loc'[p].result = "WindowClosed"
                     /\ loc'[p].calls = 0 /\ loc'[p].rows = 0
                     /\ messages' = messages
          /\ pc'[p] = "post" => pc[p] = "history"
          /\ loc'[p].calls > loc[p].calls => pc[p] = "post"]_vars
\* a text send rejected although the conversation has a last-message time:
\* that time is exactly 24 hours old
C3_Witness ==
    \E p \in Procs :
        /\ Finished(p) /\ req[p].kind = "text" /\ loc[p].result = "WindowClosed"
        /\ loc[p].conversation # NoRow
        /\ conversations[loc[p].conversation].lastMessageAt # NoTime
        /\ now - conversations[loc[p].conversation].lastMessageAt = 24

\* C4: every send (text, template or media) that reaches the provider call
\* leaves exactly one Message row for the attempt: SENT when the provider
\* accepted, FAILED when it did not.
C4_OneRowPerAttempt ==
    \A p \in Procs :
        (Finished(p) /\ req[p].kind \in Sends /\ loc[p].calls > 0) =>
            /\ loc[p].rows = 1
            /\ loc[p].row \in 1..Len(messages)
            /\ messages[loc[p].row].status =
                   IF loc[p].result = "SENT" THEN "SENT" ELSE "FAILED"

\* C5: concurrent find-or-create of the same Contact or Conversation never
\* surfaces the uniqueness conflict to a caller.
C5_NoConflictSurfaces ==
    \A p \in Procs : Finished(p) => loc[p].result # "UniqueConflict"

\* C6: there is at most one Contact per (tenant, phone) and at most one
\* Conversation per (tenant, contact), whatever sends and inbound deliveries
\* interleave.
C6_NaturalKeysUnique ==
    /\ \A i, j \in 1..Len(contacts) :
          (contacts[i].companyId = contacts[j].companyId
           /\ contacts[i].phone = contacts[j].phone) => i = j
    /\ \A i, j \in 1..Len(conversations) :
          (conversations[i].companyId = conversations[j].companyId
           /\ conversations[i].contactId = conversations[j].contactId) => i = j
\* a send and an inbound delivery, or two sends given the number in two
\* spellings, have both finished on the one Contact and Conversation
C6_Witness ==
    /\ Len(contacts) = 1 /\ Len(conversations) = 1
    /\ \A p \in Procs :
          /\ Finished(p) /\ loc[p].contact = 1 /\ loc[p].conversation = 1
          /\ loc[p].result # "UniqueConflict"
    /\ \E p, q \in Procs :
          \/ req[p].kind = "webhook" /\ req[q].kind = "text"
          \/ req[p].phoneNumber = PhoneIntl /\ req[q].phoneNumber = PhoneLocal

\* C7: handleWebhook returns normally with every event of the batch gone
\* through, whatever single event is malformed or cannot be stored.
C7_WebhookNeverRaises ==
    \A p \in Procs :
        (Finished(p) /\ req[p].kind = "webhook"
         /\ loc[p].result # "InvalidSignature") =>
            /\ loc[p].result = "ok"
            /\ loc[p].blocksLeft = 0 /\ loc[p].msgsLeft = 0 /\ loc[p].stLeft = 0

\* C8: an inbound message event that is stored inserts exactly one Message
\* row, INBOUND and DELIVERED, whose sentAt and deliveredAt are the event's
\* own timestamp; an event whose remote id is already stored inserts none.
C8_Known(ev) == ev.type \in {"text", "image"}
C8_Stored(ev) == \E i \in 1..Len(messages) : messages[i].whatsappMessageId = ev.id
C9_ValidSignature(signature) ==
    signature = SignatureHeader(HmacSha256(webhookAppSecret, Payload))
C9_OnlyVerifiedEventsAreIngested ==
    \A p \in Procs :
        (req[p].kind = "webhook" /\ ~C9_ValidSignature(req[p].signature)) =>
            /\ Finished(p) /\ loc[p].result = "InvalidSignature"
            /\ loc[p].contact = NoRow /\ loc[p].rows = 0

\* C10: a text or template send the provider answers with HTTP success but
\* without a message id fails, stores one FAILED Message row and no SENT row,
\* and leaves Conversation.lastMessageAt as it was.
C10_NoId(resp) == resp.ok /\ resp.id = NoWamid
C10_AtEnd ==
    \A p \in Procs :
        /\ pc[p] \in {"touchConversation", "saveSent"} => ~C10_NoId(loc[p].resp)
        /\ (Finished(p) /\ C10_NoId(loc[p].resp)) =>
              /\ loc[p].result = "DispatchError"
              /\ loc[p].rows = 1
              /\ messages[loc[p].row].status = "FAILED"
              /\ messages[loc[p].row].whatsappMessageId = NoWamid
C10_MissingIdIsAFailedSend ==
    /\ []C10_AtEnd
    /\ [][\A p \in Procs :
            (Steps(p) /\ (C10_NoId(loc[p].resp) \/ C10_NoId(loc'[p].resp))) =>
                conversations' = conversations]_vars
C10_Witness ==
    \E p \in Procs :
        /\ Finished(p) /\ C10_NoId(loc[p].resp)
        /\ messages[loc[p].row].status = "FAILED"
        /\ conversations[loc[p].conversation].lastMessageAt = NoTime

\* C11: two concurrent sends to the same recipient each leave their own
\* Message row, under any interleaving and also when the recipient has no
\* Contact or Conversation row yet; neither fails because of the other.
C11_Dispatched(p) ==
    /\ Finished(p) /\ req[p].kind \in {"text", "template"}
    /\ loc[p].result \notin {"InvalidPhone", "WindowClosed"}
C11_EachSendHasItsRow ==
    \A p, q \in Procs :
        (p # q /\ C11_Dispatched(p) /\ C11_Dispatched(q)) =>
            /\ loc[p].rows = 1 /\ loc[q].rows = 1
            /\ loc[p].row # loc[q].row

\* C12: a status event changes only the Message rows of the resolved tenant
\* whose remote id equals the id of the event; rows with another id, rows
\* without a remote id and rows of other tenants stay as they are, and an
\* event that matches no row changes nothing and is not an error.
C12_Addressed(row, companyId, st) ==
    /\ row.companyId = companyId
    /\ row.whatsappMessageId # NoWamid
    /\ row.whatsappMessageId = st.id
C12_StatusFrame ==
    [][\A p \in Procs :
          (pc[p] = "status" /\ loc[p].stLeft > 0 /\ Steps(p)) =>
              /\ pc'[p] = "status"
              /\ Len(messages') = Len(messages)
              /\ \A i \in 1..Len(messages) :
                    ~C12_Addressed(messages[i], loc[p].companyId, loc'[p].st)
                        => messages'[i] = messages[i]]_vars

\* C13: processing the same status event a second time leaves the status and
\* the error text of every Message as the first processing left them; only
\* deliveredAt and readAt may be written again.
C13_SameButTimes(a, b) ==
    [a EXCEPT !.deliveredAt = NoTime, !.readAt = NoTime]
        = [b EXCEPT !.deliveredAt = NoTime, !.readAt = NoTime]
C13_ReapplyIsIdempotent ==
    [][\A p \in Procs :
          (pc[p] = "status" /\ pc'[p] = "status" /\ loc'[p].stTimes > 1) =>
              /\ Len(messages') = Len(messages)
              /\ \A i \in 1..Len(messages) :
                    C13_SameButTimes(messages'[i], messages[i])]_vars
\* a delivered or failed event processed twice on the row it addresses, the
\* second time at a later hour
C13_Witness ==
    \E p \in Procs, i \in 1..Len(messages) :
        /\ pc[p] = "status" /\ loc[p].stTimes = 2
        /\ messages[i].whatsappMessageId = loc[p].st.id
        /\ messages[i].companyId = loc[p].companyId
        /\ messages[i].status \in {"DELIVERED", "FAILED"}
        /\ messages[i].sentAt < now

\* C14: a value block whose phone-number id belongs to no tenant is dropped:
\* no Contact, Conversation or Message changes, nothing is thrown, and the
\* handler goes on with the next block of the batch.
C14_Unmatched(pid) == \A c \in Tenants : whatsappPhoneId(c) # pid
C14_UnmatchedBlockIsDropped ==
    [][\A p \in Procs :
          (pc[p] = "block" /\ loc[p].blocksLeft > 0 /\ Steps(p)
           /\ C14_Unmatched(loc'[p].pid)) =>
              /\ contacts' = contacts
              /\ conversations' = conversations
              /\ messages' = messages
              /\ pc'[p] = "block"
              /\ loc'[p].result = "none"
              /\ loc'[p].blocksLeft = loc[p].blocksLeft - 1
              /\ loc'[p].dropped = loc[p].dropped + 1]_vars
\* a batch whose first block was dropped stores the message of its next block
C14_Witness ==
    \E p \in Procs :
        /\ req[p].kind = "webhook" /\ loc[p].dropped = 1
        /\ ~C14_Unmatched(loc[p].pid)
        /\ loc[p].rows = 1 /\ loc[p].row \in 1..Len(messages)
        /\ messages[loc[p].row].direction = "INBOUND"

\* C15: a template send is never held back by the messaging window: for a
\* connected tenant and a valid phone number sendTemplateMessage makes the
\* provider call whatever the last-message time of the Conversation and the
\* outbound history are.
C15_TemplateSendIsNeverGated ==
    [][\A p \in Procs : (req'[p].kind = "template" /\ Steps(p)) =>
          /\ pc'[p] \notin {"window", "history"}
          /\ pc'[p] = "done" =>
                \/ loc'[p].calls = 1
                \/ loc'[p].result = "InvalidPhone"
                      /\ ~ValidPhone(normalizePhoneNumber(req'[p].phoneNumber))]_vars
\* a template send at its provider call for a contact whose conversation went
\* quiet 24 hours ago and who was never sent anything
C15_Witness ==
    \E p \in Procs :
        /\ req[p].kind = "template" /\ pc[p] = "saveSent"
        /\ \A i \in 1..Len(messages) : messages[i].direction = "INBOUND"
        /\ \E i \in 1..Len(messages) :
              /\ messages[i].contactId = loc[p].contact
              /\ messages[i].companyId = loc[p].companyId
              /\ now - messages[i].sentAt >= 24

\* C18: a verification handshake is answered with the challenge if and only
\* if a verify token is configured and the verify token of the request equals
\* it; a mismatch, a missing token and a deployment without configured token
\* are all rejected.
C18_TokenMatches ==
    /\ webhookVerifyToken \notin {NoParam, ""}
    /\ call.in.verifyToken = webhookVerifyToken
C18_HandshakeChecksTheToken ==
    (call.fn \in {"verifyWebhook", "handleWebhook"} /\ call.done
     /\ call.in.mode = "subscribe") =>
        IF C18_TokenMatches
        THEN call.out.status = 200 /\ call.out.body = call.in.challenge
        ELSE call.out.status = 400

\* C19: the Placeholder Sequencer accepts a body text if and only if every
\* {{...}} token of the text holds a number n with 1 <= n <= 10 and the
\* numbers found are exactly 1..max: a non-numeric token, an index 0 or above
\* 10 and a gap such as {{1}},{{3}} are rejected, {{1}},{{2}} is accepted.
C19_Opens(text, i) == i + 1 <= Len(text) /\ text[i] = "{" /\ text[i + 1] = "{"
C19_Closes(text, j) == j + 1 <= Len(text) /\ text[j] = "}" /\ text[j + 1] = "}"
C19_Tokens(text) ==
    {SubSeq(text, m[1] + 2, m[2] - 1) :
        m \in {m \in (1..Len(text)) \X (1..Len(text)) :
                  /\ C19_Opens(text, m[1]) /\ m[2] >= m[1] + 2
                  /\ C19_Closes(text, m[2])
                  /\ \A k \in (m[1] + 2)..(m[2] - 1) : ~C19_Closes(text, k)}}
C19_Number(tok) == Len(tok) > 0 /\ \A k \in 1..Len(tok) : tok[k] \in Digits
C19_WellFormed(text) ==
    /\ \A tok \in C19_Tokens(text) :
          C19_Number(tok) /\ parseInt(tok) >= 1 /\ parseInt(tok) <= 10
    /\ LET found == {parseInt(tok) : tok \in {t \in C19_Tokens(text) : C19_Number(t)}}
       IN  \A n \in found : \A i \in 1..n : i \in found
C19_SequencerAcceptsWellFormed ==
    (call.fn = "validatePlaceholderSequence" /\ call.done) =>
        (call.out = "ok" <=> C19_WellFormed(call.in))

\* C20: for a BODY with k >= 1 placeholders normalization succeeds only if
\* the supplied samples hold at least k values that are non-empty after
\* trimming; it stores those values, trimmed, as a one-row nested array, and
\* the provider payload built from the result carries exactly that array as
\* body_text (the sample Sam gives [[Sam]]). For a BODY without placeholders
\* no body_text example is left in the result or in the payload.
C20_Body(components) ==
    CHOOSE i \in 1..Len(components) : components[i].type \in {"body", "BODY"}
C20_Supplied(example) ==
    IF ~example.present \/ example.body_text.kind # "array" THEN <<>>
    ELSE IF example.body_text.items # <<>> /\ example.body_text.items[1].kind = "array"
    THEN example.body_text.items[1].items
    ELSE example.body_text.items
C20_NonEmpty(supplied) ==
    SelectSeq([i \in 1..Len(supplied) |->
                  IF supplied[i].kind = "string" THEN Str(Trim(supplied[i].items))
                  ELSE Undef],
              LAMBDA v : v.kind = "string" /\ v.items # <<>>)
C16_Frozen(row) == row.status = "APPROVED" /\ row.whatsappTemplateId # "null"
C16_ApprovedTemplateIsImmutable ==
    [][\A i \in 1..Len(templates) :
          (C16_Frozen(templates[i]) /\ submitting.fn # "delete") =>
          /\ i <= Len(templates')
          /\ templates'[i].name = templates[i].name
          /\ templates'[i].language = templates[i].language
          /\ templates'[i].category = templates[i].category
          /\ templates'[i].components = templates[i].components
          /\ templates'[i].status = templates[i].status
          /\ (call'.fn = "update" /\ call'.in = i /\ started' # started)
                => call'.out # "ok"]_vars

\* C17: the status of a template only advances along DRAFT -> PENDING ->
\* APPROVED or REJECTED: create stores DRAFT, a successful submitToMeta
\* leaves PENDING, and no request moves a template from APPROVED or REJECTED
\* back to DRAFT or PENDING or from DRAFT straight to APPROVED or REJECTED.
C17_Backward ==
    ({"APPROVED", "REJECTED"} \X {"DRAFT", "PENDING"})
    \cup ({"DRAFT"} \X {"APPROVED", "REJECTED"})
C17_StatusOnlyAdvances ==
    [][/\ \A i \in 1..Len(templates) :
             i <= Len(templates')
             /\ <<templates[i].status, templates'[i].status>> \notin C17_Backward
       /\ (call'.fn = "create" /\ started' # started /\ call'.out = "ok")
             => templates'[Len(templates')].status = "DRAFT"
       /\ (call'.fn = "submitToMeta" /\ started' # started /\ call'.out = "ok")
             => templates'[call'.in].status = "PENDING"]_vars

\* C21: normalizeAndValidateComponents is a pure function: whether it accepts
\* or rejects, the caller's components and their example objects are after
\* the call what they were before it.
C21_NormalizerLeavesItsInput ==
    (call.done /\ call.fn = "normalizeAndValidateComponents")
        => call.out.rawComponents = call.in

\* C22: every send (text, template, media) goes on only when the normalized
\* recipient phone is '+' followed by at least 10 digits: otherwise it is
\* rejected without a provider call and without a row, so every stored
\* Contact has such a phone.
C22_Recipient(p) == normalizePhoneNumber(req[p].phoneNumber)
C22_InvalidPhoneIsRejected ==
    /\ \A p \in Procs :
          (req[p].kind \in Sends /\ ~ValidPhone(C22_Recipient(p))) =>
              /\ loc[p].calls = 0
              /\ loc[p].rows = 0
              /\ loc[p].contact = NoRow
              /\ Finished(p) => loc[p].result = "InvalidPhone"
    /\ \A i \in 1..Len(contacts) : ValidPhone(contacts[i].phone)

\* C23: when the provider call of a text or template send fails, a FAILED
\* Message row carrying the provider's error text is stored before the error
\* is raised, and the error raised is the classification of the code table
\* (not on network, blocked or invalid, window expired, rate limited or HTTP
\* 429, invalid number format, template language mismatch, template not
\* approved); any other provider error is raised with the provider's text.
C23_InTable(kind, resp) ==
    \/ resp.code \in {131047, 131026, 131031, 131048}
    \/ resp.http = 429
    \/ kind = "text" /\ resp.code = 131051
    \/ kind = "text" /\ resp.code = 131000 /\ resp.subcode = 131031
    \/ kind = "template" /\ resp.code \in {132001, 132000}
C23_ProviderFailed(p) ==
    /\ Finished(p) /\ req[p].kind \in SendKinds
    /\ loc[p].calls = 1 /\ ~loc[p].resp.ok /\ loc[p].resp.error # NoError
C23_FailureIsStoredAndClassified ==
    \A p \in Procs : C23_ProviderFailed(p) =>
        /\ loc[p].result = "DispatchError"
        /\ loc[p].row # NoRow
        /\ messages[loc[p].row].status = "FAILED"
        /\ messages[loc[p].row].error = loc[p].resp.error
        /\ IF C23_InTable(req[p].kind, loc[p].resp)
           THEN loc[p].message \notin {"none", loc[p].resp.error}
           ELSE loc[p].message = loc[p].resp.error

\* C24: deleting a template that at least one campaign references fails with
\* an error and leaves the template and the campaign's reference in place; a
\* template is deleted only when no campaign referenced it at the time of
\* the check.
C24_Referenced(id) == \E k \in 1..Len(campaigns) : campaigns[k].templateId = id
C24_ReferencedTemplateIsKept ==
    [][/\ (call'.fn = "delete" /\ started' # started /\ submitting.fn # "delete"
           /\ C24_Referenced(call'.in)) =>
              /\ call'.out # "ok"
              /\ templates' = templates
              /\ campaigns' = campaigns
       /\ (submitting.fn # "delete" /\ submitting'.fn = "delete") =>
              ~C24_Referenced(submitting'.id)
       /\ \A i \in 1..Len(templates) :
              (templates[i].companyId # "none" /\ templates'[i].companyId = "none") =>
                  /\ submitting.fn = "delete" /\ submitting.id = i
                  /\ submitting.campaignCount = 0]_vars
C24_Witness ==
    /\ call.fn = "delete"
    /\ call.out = "Cannot delete template that is used in campaigns"
    /\ C24_Referenced(call.in)
    /\ templates[call.in].companyId # "none"

\* C25: once an inbound event with timestamp t of a contact is processed, the
\* conversation is OPEN, whatever its status was, with last-message time t,
\* and a text send to the contact whose window check runs less than 24 hours
\* after that time is not denied by the window policy.
C25_Conversation(p, i) ==
    /\ conversations[i].companyId = req[p].companyId
    /\ conversations[i].contactId = loc[p].contact
C25_InboundOpensTheWindow ==
    [][\A p \in Procs :
          /\ (pc[p] \in {"inCreateConversation", "inUpdateConversation"}
              /\ pc'[p] = "inSave") =>
                 /\ conversations'[loc'[p].conversation].status = "OPEN"
                 /\ conversations'[loc'[p].conversation].lastMessageAt
                        = loc[p].ev.timestamp
                 /\ conversations'[loc'[p].conversation].contactId = loc[p].contact
          /\ (req[p].kind = "text" /\ pc[p] = "window" /\ Steps(p)) =>
                 \A i \in 1..Len(conversations) :
                     (/\ C25_Conversation(p, i)
                      /\ conversations[i].lastMessageAt # NoTime
                      /\ now - conversations[i].lastMessageAt < 24)
                         => loc'[p].hasActiveWindow
          /\ (req[p].kind = "text" /\ pc[p] = "history" /\ Steps(p)
              /\ loc[p].hasActiveWindow) =>
                 /\ pc'[p] = "post"
                 /\ loc'[p].result # "WindowClosed"]_vars
\* a text send let through 12 hours after the contact wrote, with nothing
\* sent to the contact before
C25_Witness ==
    \E p \in Procs, i \in 1..Len(conversations), m \in 1..Len(messages) :
        /\ req[p].kind = "text" /\ pc[p] = "post" /\ loc[p].hasActiveWindow
        /\ C25_Conversation(p, i)
        /\ conversations[i].status = "OPEN"
        /\ messages[m].direction = "INBOUND" /\ messages[m].conversationId = i
        /\ messages[m].sentAt = conversations[i].lastMessageAt
        /\ now - conversations[i].lastMessageAt > 0
        /\ ~\E k \in 1..Len(messages) : messages[k].direction = "OUTBOUND"

\* C26: lastMessageAt of a Conversation and of a Contact never decreases:
\* whatever the order in which inbound events and sends are processed, an
\* older inbound event that is processed late does not move it backward.
C26_LastMessageAtNeverDecreases ==
    [][/\ \A i \in 1..Len(conversations) :
             conversations'[i].lastMessageAt >= conversations[i].lastMessageAt
       /\ \A i \in 1..Len(contacts) :
             contacts'[i].lastMessageAt >= contacts[i].lastMessageAt]_vars

\* C27: when the provider call of submitToMeta fails, the template has the
\* status and the remote id it had before the call: a REJECTED template with
\* a remote id whose resubmission fails is still REJECTED with that id.
C27_FailedSubmitLeavesTheTemplate ==
    [][(/\ submitting.fn = "submitToMeta" /\ submitting'.fn = "none"
        /\ call'.fn = "submitToMeta" /\ call'.out # "ok") =>
           /\ templates'[submitting.id].status = submitting.found.status
           /\ templates'[submitting.id].whatsappTemplateId
                  = submitting.found.whatsappTemplateId]_vars

\* C28: syncFromMeta called for a tenant creates and updates only templates
\* of that tenant: no row of another tenant is changed, even when it carries
\* the remote id of a template the provider lists for the caller.
C28_SyncStaysInItsTenant ==
    [][(call'.fn = "syncFromMeta" /\ started' # started) =>
          /\ \A i \in 1..Len(templates) :
                templates[i].companyId # call'.in => templates'[i] = templates[i]
          /\ \A i \in (Len(templates) + 1)..Len(templates') :
                templates'[i].companyId = call'.in]_vars

\* C29: a status event whose status is none of sent, delivered, read and
\* failed is mapped to SENT: processing it sets the status of every Message
\* it matches to SENT, whatever the status was.
C29_Unknown(st) == st.status \notin {"sent", "delivered", "read", "failed"}
C29_UnknownStatusBecomesSent ==
    [][\A p \in Procs :
          (pc[p] = "status" /\ Steps(p) /\ loc[p].stLeft > 0
           /\ C29_Unknown(loc'[p].st)) =>
              \A i \in 1..Len(messages) :
                  (/\ messages[i].companyId = loc[p].companyId
                   /\ messages[i].whatsappMessageId = loc'[p].st.id)
                      => messages'[i].status = "SENT"]_vars

\* C30: in every reachable state every OUTBOUND message whose status is SENT,
\* DELIVERED or READ carries a remote message id, every row written by a
\* failed dispatch has none, and no two rows share a remote message id
C30_Tracked(row) ==
    (row.direction = "OUTBOUND" /\ row.status \in {"SENT", "DELIVERED", "READ"})
        => row.whatsappMessageId # NoWamid
C30_FailedRows ==
    \A p \in Procs :
        (pc[p] = "done" /\ loc[p].result = "DispatchError" /\ loc[p].row # NoRow)
            => messages[loc[p].row].whatsappMessageId = NoWamid
C30_NoSharedId ==
    \A i, j \in 1..Len(messages) :
        (i # j /\ messages[i].whatsappMessageId # NoWamid)
            => messages[i].whatsappMessageId # messages[j].whatsappMessageId
C30_RemoteIdsAreConsistent ==
    /\ \A i \in 1..Len(messages) : C30_Tracked(messages[i])
    /\ C30_FailedRows
    /\ C30_NoSharedId

====
